---- MODULE Spec2Model ----
(***************************************************************************)
(* A model of the generator snippets of es6_generators: the generator      *)
(* functions of 01_basics.js and README.md (resumed by hand with next and  *)
(* throw) and the asynchronous helpers of 03_async.js (the request         *)
(* variants, runGenerator and the event loop they run on).                 *)
(***************************************************************************)
EXTENDS Integers, Sequences, FiniteSets, TLC

(***************************************************************************)
(* Bounds.                                                                 *)
(***************************************************************************)
\* calls of next/throw a hand-driven iterator receives
MaxManualCalls == 7
\* calls of next/throw on `it` in an asynchronous snippet
MaxCalls == 5
\* times `it = main(); it.next()` is run in the callback and cache snippets
MaxRuns == 2
\* times, in all, that a makeAjaxCall operation invokes its callback again
MaxRepeats == 1

(***************************************************************************)
(* JavaScript values: every value is a record of the same shape.           *)
(***************************************************************************)
Num(n) == [t |-> "num", n |-> n, s |-> ""]
Str(s) == [t |-> "str", n |-> 0, s |-> s]
Undef == [t |-> "undef", n |-> 0, s |-> ""]
NaN == [t |-> "nan", n |-> 0, s |-> ""]
\* a function object, by name
FnV(name) == [t |-> "fn", n |-> 0, s |-> name]
\* promise number i of the promise table
PromiseV(i) == [t |-> "promise", n |-> i, s |-> ""]
\* the object JSON.parse gives for {"id": n, "value": s}
ObjV(n, s) == [t |-> "obj", n |-> n, s |-> s]
\* an Error object of the engine, by its name
ErrV(name) == [t |-> "error", n |-> 0, s |-> name]
\* the array Promise.all number k resolves with
ListV(k) == [t |-> "list", n |-> k, s |-> ""]
\* an identifier with no binding in scope
Unbound == [t |-> "unbound", n |-> 0, s |-> ""]

\* the quotient n / d: a number when it is whole, else the fraction
Ratio(n, d) ==
  IF n % d = 0 THEN Num(n \div d) ELSE [t |-> "ratio", n |-> n, s |-> ToString(d)]

IsPrimitive(v) == v.t \in {"num", "str", "undef", "nan"}
Truthy(v) == ~(v = Undef \/ v = NaN \/ v = Num(0) \/ v = Str(""))
\* unary plus
ToNumber(v) ==
  IF v.t = "num" THEN v ELSE IF v = Str("") THEN Num(0) ELSE NaN

\* String(v) for the values that are added to strings
ToStr(v) ==
  CASE v.t = "str" -> v.s
    [] v.t = "num" -> ToString(v.n)
    [] v.t = "nan" -> "NaN"
    [] OTHER -> "undefined"
\* s begins with pre
StartsWith(s, pre) == Len(s) >= Len(pre) /\ SubSeq(s, 1, Len(pre)) = pre
\* /^https?:\/\/.+/.test(v)
IsRedirect(v) ==
  /\ v.t = "str"
  /\ \/ StartsWith(v.s, "http://") /\ Len(v.s) > Len("http://")
     \/ StartsWith(v.s, "https://") /\ Len(v.s) > Len("https://")
\* a + b
JsAdd(a, b) ==
  IF a.t = "num" /\ b.t = "num" THEN Num(a.n + b.n)
  ELSE IF a.t = "str" \/ b.t = "str" THEN Str(ToStr(a) \o ToStr(b))
  ELSE NaN
\* a * b and a / b
JsMul(a, b) == IF a.t = "num" /\ b.t = "num" THEN Num(a.n * b.n) ELSE NaN
JsDiv(a, b) == IF a.t = "num" /\ b.t = "num" /\ b.n # 0 THEN Ratio(a.n, b.n) ELSE NaN

(***************************************************************************)
(* Generator bodies as instruction lists.  A try block is a range of       *)
(* instructions with the index of its catch block.                         *)
(***************************************************************************)
K(c) == [k |-> "const", c |-> c, x |-> ""]
V(x) == [k |-> "var", c |-> Undef, x |-> x]
\* url + x.id
Cat(url, x) == [k |-> "cat", c |-> Str(url), x |-> x]
\* +x
Plus(x) == [k |-> "plus", c |-> Undef, x |-> x]
\* x.value
ValueOf(x) == [k |-> "value", c |-> Undef, x |-> x]
\* JSON.parse(x)
Parse(x) == [k |-> "parse", c |-> Undef, x |-> x]
\* x + c, c * x, x / c
AddK(x, c) == [k |-> "addk", c |-> Num(c), x |-> x]
MulK(c, x) == [k |-> "mulk", c |-> Num(c), x |-> x]
DivK(x, c) == [k |-> "divk", c |-> Num(c), x |-> x]
\* "url" + x
Pre(url, x) == [k |-> "pre", c |-> Str(url), x |-> x]
\* x + y + z
Sum3(x, y, z) == [k |-> "sum3", c |-> Undef, x |-> x, y |-> y, z |-> z]

Ins(op, e, dst, tgt, fn, args) ==
  [op |-> op, e |-> e, dst |-> dst, tgt |-> tgt, fn |-> fn, args |-> args]
Yield(e, dst) == Ins("yield", e, dst, 0, "", <<>>)
YieldStar(fn, dst) == Ins("delegate", K(Undef), dst, 0, fn, <<>>)
Return(e) == Ins("return", e, "", 0, "", <<>>)
Throw(e) == Ins("throw", e, "", 0, "", <<>>)
Jump(tgt) == Ins("jump", K(Undef), "", tgt, "", <<>>)
Log(args) == Ins("log", K(Undef), "", 0, "", args)
Let(e, dst) == Ins("let", e, dst, 0, "", <<>>)
\* dst = request(e)
Call(e, dst) == Ins("request", e, dst, 0, "", <<>>)
\* dst = Promise.all([args])
All(args, dst) == Ins("all", K(Undef), dst, 0, "", args)
\* dst = x.join("+")
Join(x, dst) == Ins("join", V(x), dst, 0, "", <<>>)
\* the end of the block that declared x
Leave(x) == Ins("leave", K(Undef), x, 0, "", <<>>)
Try(from, to, tgt, var) == [from |-> from, to |-> to, tgt |-> tgt, var |-> var]

genAsIterator ==
  [code |-> << Yield(K(Num(1)), ""), Yield(K(Num(2)), ""), Yield(K(Num(3)), ""),
               Yield(K(Num(4)), ""), Yield(K(Num(5)), "") >>,
   try |-> <<>>]

canUseReturn ==
  [code |-> << Yield(K(Num(1)), ""), Return(K(Num(2))) >>, try |-> <<>>]

generatorFunction2 ==
  [code |-> << Yield(K(FnV("generatorFunction2")), "x"), Log(<<V("x")>>) >>,
   try |-> <<>>]

errorHandling ==
  [code |-> << Yield(K(Num(3)), "x"), Log(<<V("x")>>), Jump(5), Log(<<V("err")>>) >>,
   try |-> << Try(1, 2, 4, "err") >>]

errorHandling2 == [code |-> <<>>, try |-> <<>>]

errorHandling3 ==
  [code |-> << Yield(K(Num(3)), "x"), Let(K(Undef), "y"), Yield(V("y"), "") >>,
   try |-> <<>>]

\* superGenerator with the precedence of yield mistaken: (yield x) + 1
superGeneratorYieldBinds ==
  [code |-> << Yield(V("x"), "t"), Let(AddK("t", 1), "t"), Let(MulK(2, "t"), "y"),
               Yield(DivK("y", 3), "z"), Return(Sum3("x", "y", "z")) >>,
   try |-> <<>>]

\* function* superGenerator(x)
superGenerator ==
  [code |-> << Yield(AddK("x", 1), "t"), Let(MulK(2, "t"), "y"),
               Yield(DivK("y", 3), "z"), Return(Sum3("x", "y", "z")) >>,
   try |-> <<>>]

thisFunction ==
  [code |-> << Yield(K(Num(3)), ""), Yield(K(Num(4)), "") >>, try |-> <<>>]

thatFunction ==
  [code |-> << Yield(K(Num(1)), ""), Yield(K(Num(2)), ""),
               YieldStar("thisFunction", ""), Yield(K(Num(5)), "") >>,
   try |-> <<>>]

firstFunction ==
  [code |-> << Yield(K(Num(3)), "z"), Yield(K(Num(4)), "w"),
               Log(<<V("z"), V("w")>>) >>,
   try |-> <<>>]

\* secondFunction with the star of yield* forgotten
secondFunctionNoStar ==
  [code |-> << Yield(K(Num(1)), "x"), Yield(K(Num(2)), "y"),
               Yield(K(FnV("firstFunction")), ""), Yield(K(Num(5)), "v"),
               Log(<<V("x"), V("y"), V("v")>>) >>,
   try |-> <<>>]

secondFunction ==
  [code |-> << Yield(K(Num(1)), "x"), Yield(K(Num(2)), "y"),
               YieldStar("firstFunction", ""), Yield(K(Num(5)), "v"),
               Log(<<V("x"), V("y"), V("v")>>) >>,
   try |-> <<>>]

catcher ==
  [code |-> << Yield(K(Num(2)), ""), Yield(K(Num(3)), ""),
               Return(K(Str("im catcher"))) >>,
   try |-> <<>>]

pitcher ==
  [code |-> << Yield(K(Num(1)), ""), YieldStar("catcher", "v"), Log(<<V("v")>>),
               Yield(K(Num(4)), "") >>,
   try |-> <<>>]

receiver ==
  [code |-> << Yield(K(Num(2)), ""), Jump(4), Log(<<V("err")>>),
               Yield(K(Undef), ""), Throw(K(Num(12345))) >>,
   try |-> << Try(1, 1, 3, "err") >>]

\* quarterback with no try around the yield*
quarterbackNoTry ==
  [code |-> << Yield(K(Num(1)), ""), YieldStar("receiver", ""), Jump(5),
               Log(<<Plus("err")>>) >>,
   try |-> <<>>]

quarterback ==
  [code |-> << Yield(K(Num(1)), ""), YieldStar("receiver", ""), Jump(5),
               Log(<<Plus("err")>>) >>,
   try |-> << Try(2, 2, 4, "err") >>]

\* function *main of the callback and cache snippets
main ==
  [code |-> << Call(K(Str("http://whatever")), "t"), Yield(V("t"), "result1"),
               Let(Parse("result1"), "data"),
               Call(Cat("http://whateverelse", "data"), "t"),
               Yield(V("t"), "result2"),
               Let(Parse("result2"), "response"),
               Log(<<ValueOf("response")>>) >>,
   try |-> <<>>]

\* function *main handed to runGenerator ("How to use")
mainRun ==
  [code |-> << Call(K(Str("http://someurl")), "t"), Yield(V("t"), "result1"),
               Let(Parse("result1"), "data"),
               Call(Cat("http://someotherurl?id=", "data"), "t"),
               Yield(V("t"), "result2"),
               Let(Parse("result2"), "resp"),
               Log(<<V("resp"), V("value")>>) >>,
   try |-> <<>>]

\* function *main of the error handling snippet: result1 and result2 are
\* declared inside their try blocks
mainTry ==
  [code |-> << Call(K(Str("http://thisURL")), "t"), Yield(V("t"), "result1"),
               Leave("result1"), Jump(7),
               Log(<<V("err")>>), Return(K(Undef)),
               Let(Parse("result1"), "data"),
               Call(Cat("http://thatURL?id=", "data"), "t"),
               Yield(V("t"), "result2"),
               Leave("result2"), Jump(14),
               Log(<<Plus("err")>>), Return(K(Undef)),
               Let(Parse("result2"), "resp"),
               Log(<<ValueOf("resp")>>) >>,
   try |-> << Try(1, 2, 5, "err"), Try(8, 9, 12, "err") >>]

\* the Promise.all main with the first two requests written in the other
\* order
mainAllReordered ==
  [code |-> << Call(K(Str("http://url02")), "r1"), Call(K(Str("http://url01")), "r2"),
               Call(K(Str("http://url03")), "r3"),
               All(<<V("r1"), V("r2"), V("r3")>>, "t"), Yield(V("t"), "search_terms"),
               Join("search_terms", "q"),
               Call(Pre("http://url04?search=", "q"), "t"),
               Yield(V("t"), "search_results"),
               Let(Parse("search_results"), "resp"),
               Log(<<ValueOf("resp")>>) >>,
   try |-> <<>>]

\* function *main of the Promise.all example
mainAll ==
  [code |-> << Call(K(Str("http://url01")), "r1"), Call(K(Str("http://url02")), "r2"),
               Call(K(Str("http://url03")), "r3"),
               All(<<V("r1"), V("r2"), V("r3")>>, "t"), Yield(V("t"), "search_terms"),
               Join("search_terms", "q"),
               Call(Pre("http://url04?search=", "q"), "t"),
               Yield(V("t"), "search_results"),
               Let(Parse("search_results"), "resp"),
               Log(<<ValueOf("resp")>>) >>,
   try |-> <<>>]

\* the generator functions, by name
Programs ==
  [genAsIterator |-> genAsIterator,
   main |-> main,
   mainRun |-> mainRun,
   mainTry |-> mainTry,
   mainAll |-> mainAll,
   canUseReturn |-> canUseReturn,
   superGenerator |-> superGenerator,
   generatorFunction2 |-> generatorFunction2,
   errorHandling |-> errorHandling,
   errorHandling2 |-> errorHandling2,
   errorHandling3 |-> errorHandling3,
   thisFunction |-> thisFunction,
   thatFunction |-> thatFunction,
   firstFunction |-> firstFunction,
   secondFunction |-> secondFunction,
   catcher |-> catcher,
   pitcher |-> pitcher,
   receiver |-> receiver,
   quarterback |-> quarterback]

Prog(fn) == Programs[fn]

\* the identifiers the bodies use
Names ==
  {"x", "y", "z", "w", "v", "err", "t", "result1", "result2", "data",
   "response", "resp", "value", "r1", "r2", "r3", "q", "search_terms",
   "search_results"}

(***************************************************************************)
(* The generator object: its state and the frames of the running bodies    *)
(* (the body itself, then the bodies it delegates control to).             *)
(***************************************************************************)
NewFrame(fn) == [fn |-> fn, pc |-> 1, env |-> [x \in Names |-> Unbound]]
NewGen(fn) == [status |-> "suspendedStart", frames |-> << NewFrame(fn) >>]
\* the parameters of a generator function
Params(fn) == IF fn = "superGenerator" THEN <<"x">> ELSE <<>>
\* fn(a[1], ...): the parameters are bound, nothing has run
NewGenArgs(fn, a) ==
  [status |-> "suspendedStart",
   frames |-> << [fn |-> fn, pc |-> 1,
                  env |-> [x \in Names |->
                             IF \E i \in 1..Len(a) : Params(fn)[i] = x
                             THEN a[CHOOSE i \in 1..Len(a) : Params(fn)[i] = x]
                             ELSE Unbound]] >>]

Res(k, v) == [k |-> k, v |-> v]
Inj(k, v) == [k |-> k, v |-> v]
NoInj == Inj("none", Undef)

\* what makeAjaxCall may answer: a JSON text, or something that is not JSON
GoodText == Str("{\"id\":1,\"value\":\"v\"}")
BadText == Str("<html>")
Responses == {GoodText, BadText}
\* the error an error-first callback may be given
AjaxError == Str("timeout")

JSONparse(v) ==
  IF v = GoodText THEN Res("ok", ObjV(1, "v")) ELSE Res("throw", ErrV("SyntaxError"))

\* the value of an expression, or the error its evaluation throws
Eval(e, env) ==
  CASE e.k = "const" -> Res("ok", e.c)
    [] e.k = "var" ->
         IF env[e.x] = Unbound THEN Res("throw", ErrV("ReferenceError"))
         ELSE Res("ok", env[e.x])
    [] e.k = "plus" ->
         IF env[e.x] = Unbound THEN Res("throw", ErrV("ReferenceError"))
         ELSE Res("ok", ToNumber(env[e.x]))
    [] e.k = "parse" ->
         IF env[e.x] = Unbound THEN Res("throw", ErrV("ReferenceError"))
         ELSE JSONparse(env[e.x])
    [] e.k = "cat" ->
         IF env[e.x] = Unbound THEN Res("throw", ErrV("ReferenceError"))
         ELSE IF env[e.x] = Undef THEN Res("throw", ErrV("TypeError"))
         ELSE IF env[e.x].t = "obj" THEN Res("ok", Str(e.c.s \o ToString(env[e.x].n)))
         ELSE Res("ok", Str(e.c.s \o "undefined"))
    [] e.k = "pre" ->
         IF env[e.x] = Unbound THEN Res("throw", ErrV("ReferenceError"))
         ELSE Res("ok", JsAdd(e.c, env[e.x]))
    [] e.k = "addk" ->
         IF env[e.x] = Unbound THEN Res("throw", ErrV("ReferenceError"))
         ELSE Res("ok", JsAdd(env[e.x], e.c))
    [] e.k = "mulk" ->
         IF env[e.x] = Unbound THEN Res("throw", ErrV("ReferenceError"))
         ELSE Res("ok", JsMul(e.c, env[e.x]))
    [] e.k = "divk" ->
         IF env[e.x] = Unbound THEN Res("throw", ErrV("ReferenceError"))
         ELSE Res("ok", JsDiv(env[e.x], e.c))
    [] e.k = "sum3" ->
         IF Unbound \in {env[e.x], env[e.y], env[e.z]}
         THEN Res("throw", ErrV("ReferenceError"))
         ELSE Res("ok", JsAdd(JsAdd(env[e.x], env[e.y]), env[e.z]))
    [] e.k = "value" ->
         IF env[e.x] = Unbound THEN Res("throw", ErrV("ReferenceError"))
         ELSE IF env[e.x] = Undef THEN Res("throw", ErrV("TypeError"))
         ELSE IF env[e.x].t = "obj" THEN Res("ok", Str(env[e.x].s))
         ELSE Res("ok", Undef)

\* console.log of the values of args, or the error evaluating them throws
EvalAll(args, env) ==
  LET bad == {i \in 1..Len(args) : Eval(args[i], env).k = "throw"} IN
  IF bad # {} THEN Res("throw", Eval(args[CHOOSE i \in bad : \A j \in bad : i <= j], env).v)
  ELSE Res("ok", [i \in 1..Len(args) |-> Eval(args[i], env).v])

\* the innermost try block of table T around instruction pc, 0 when there is
\* none
FindHandler(T, pc) ==
  IF \A i \in 1..Len(T) : ~(T[i].from <= pc /\ pc <= T[i].to) THEN 0
  ELSE CHOOSE i \in 1..Len(T) :
         /\ T[i].from <= pc /\ pc <= T[i].to
         /\ \A j \in 1..Len(T) : (T[j].from <= pc /\ pc <= T[j].to) => j <= i

Bind(env, x, v) == IF x = "" THEN env ELSE [env EXCEPT ![x] = v]

(***************************************************************************)
(* Promises: settling one queues its reactions as microtasks.              *)
(***************************************************************************)
\* a reaction registered with then: runGenerator's iterate; the function
\* request (redirect version) passes to then, d being the promise that then
\* returned; promise d following the promise a reaction returned; element i
\* of Promise.all number d
H(k, d, i) == [k |-> k, d |-> d, i |-> i]
OnIterate == H("iterate", 0, 0)

\* Settle with a settled promise settled again
SettleAgain(w, p, state, v) ==
  [w EXCEPT !.promises[p] = [state |-> state, v |-> v, then |-> <<>>],
            !.settled = Append(@, p),
            !.micro = @ \o [i \in 1..Len(w.promises[p].then) |->
                              [p |-> p, h |-> w.promises[p].then[i]]]]

\* resolve(v) / reject(v) of promise p: a settled promise stays as it is
Settle(w, p, state, v) ==
  IF w.promises[p].state # "pending" THEN w
  ELSE [w EXCEPT !.promises[p] = [state |-> state, v |-> v, then |-> <<>>],
                 !.settled = Append(@, p),
                 !.micro = @ \o [i \in 1..Len(w.promises[p].then) |->
                                   [p |-> p, h |-> w.promises[p].then[i]]]]

\* p.then(h)
Then(w, p, h) ==
  IF w.promises[p].state = "pending"
  THEN [w EXCEPT !.promises[p].then = Append(@, h)]
  ELSE [w EXCEPT !.micro = Append(@, [p |-> p, h |-> h])]

\* an exception nobody catches: it leaves a callback of the event loop, or
\* rejects a promise that has no rejection handler
Escape(w, ctx, origin, err) ==
  [w EXCEPT !.faults = Append(@, [ctx |-> ctx, origin |-> origin, err |-> err])]

(***************************************************************************)
(* The request helpers of 03_async.js.  makeAjaxCall(url, cb) starts an    *)
(* operation outside the program; cb is invoked in a later turn of the     *)
(* event loop.                                                             *)
(***************************************************************************)
\* the URLs the cache is asked about
Urls == {Str("http://whatever"), Str("http://whateverelse1")}

\* which request helper and which way of running the generator a snippet uses
RequestOf(sn) ==
  CASE sn = "cb_main" -> "callback"
    [] sn = "cache_main" -> "cached"
    [] sn \in {"run_mainTry", "mainTry", "run_mainAllErr"} -> "errfirst"
    [] sn = "run_mainAll" -> "redirect"
    [] OTHER -> "promise"

makeAjaxCall(w, url, cb, p) ==
  [w EXCEPT !.ajax = Append(@, [url |-> url, cb |-> cb, p |-> p, n |-> 0])]

\* new Promise(...): the promise gets the next number of the table
NewPromise(w) ==
  [w EXCEPT !.promises = Append(@, [state |-> "pending", v |-> Undef, then |-> <<>>])]

\* setTimeout(f, 0)
setTimeout(w, k, url) == [w EXCEPT !.tasks = Append(@, [k |-> k, url |-> url])]

\* request(url), callback version
requestCallback(w, url) ==
  [w |-> makeAjaxCall(w, url, "next", 0), res |-> Res("ok", Undef)]

\* request(url), cached version
requestCached(w, url) ==
  IF Truthy(w.cache[url])
  THEN [w |-> setTimeout(w, "cachehit", url), res |-> Res("ok", Undef)]
  ELSE [w |-> makeAjaxCall(w, url, "cache", 0), res |-> Res("ok", Undef)]

\* request(url) returning a promise that makeAjaxCall resolves
requestPromise(w, url) ==
  LET p == Len(w.promises) + 1 IN
  [w |-> makeAjaxCall(NewPromise(w), url, "resolve", p), res |-> Res("ok", PromiseV(p))]

\* request(url) returning a promise settled by an error-first callback
requestErrFirst(w, url) ==
  LET p == Len(w.promises) + 1 IN
  [w |-> makeAjaxCall(NewPromise(w), url, "errfirst", p), res |-> Res("ok", PromiseV(p))]

\* request(url) whose promise follows a response that is a URL
requestRedirect(w, url) ==
  LET p == Len(w.promises) + 1 IN
  [w |-> Then(makeAjaxCall(NewPromise(NewPromise(w)), url, "resolve", p),
              p, H("post", p + 1, 0)),
   res |-> Res("ok", PromiseV(p + 1))]

request(w, url) ==
  CASE RequestOf(w.snippet) = "callback" -> requestCallback(w, url)
    [] RequestOf(w.snippet) = "cached" -> requestCached(w, url)
    [] RequestOf(w.snippet) = "promise" -> requestPromise(w, url)
    [] RequestOf(w.snippet) = "errfirst" -> requestErrFirst(w, url)
    [] RequestOf(w.snippet) = "redirect" -> requestRedirect(w, url)

\* Promise.all(kids), kids being promises: a new promise, and one reaction
\* on each element
RECURSIVE ThenEach(_, _, _, _)
ThenEach(w, kids, k, i) ==
  IF i > Len(kids) THEN w
  ELSE ThenEach(Then(w, kids[i].n, H("element", k, i)), kids, k, i + 1)

PromiseAll(w, kids) ==
  LET a == Len(w.promises) + 1
      k == Len(w.alls) + 1
  IN
  [w |-> ThenEach([NewPromise(w) EXCEPT !.alls =
                     Append(@, [p |-> a,
                                kids |-> [i \in 1..Len(kids) |-> kids[i].n],
                                vals |-> [i \in 1..Len(kids) |-> Undef],
                                left |-> Len(kids)])],
                  kids, k, 1),
   res |-> Res("ok", PromiseV(a))]

\* the array's elements joined with sep
RECURSIVE JoinFrom(_, _, _)
JoinFrom(xs, sep, i) ==
  IF i > Len(xs) THEN ""
  ELSE (IF xs[i].t = "undef" THEN "" ELSE ToStr(xs[i]))
       \o (IF i < Len(xs) THEN sep ELSE "") \o JoinFrom(xs, sep, i + 1)

\* What one instruction of the running body does: either the body goes on
\* (with something to deliver to it), or it halts with a result.
Cont(w, inj) == [halt |-> FALSE, w |-> w, inj |-> inj, res |-> Res("none", Undef)]
Halt(w, res) == [halt |-> TRUE, w |-> w, inj |-> NoInj, res |-> res]
Top(w) == w.gen.frames[Len(w.gen.frames)]
SetTop(w, f) == [w EXCEPT !.gen.frames[Len(w.gen.frames)] = f]
Pop(w) == [w EXCEPT !.gen.frames = SubSeq(@, 1, Len(@) - 1)]
\* Finish with the return value of a delegated body handed to the caller of
\* next as one more emitted value
FinishEmits(w, v) ==
  IF Len(w.gen.frames) = 1 THEN Halt(Pop(w), Res("done", v))
  ELSE Halt(Pop(w), Res("yield", v))

\* the body at the top returns v: to the caller of next, or to the yield* it
\* was started by
Finish(w, v) ==
  IF Len(w.gen.frames) = 1 THEN Halt(Pop(w), Res("done", v))
  ELSE Cont(Pop(w), Inj("value", v))
Advance(w, f, env) == Cont(SetTop(w, [f EXCEPT !.pc = @ + 1, !.env = env]), NoInj)

\* Unwind with the catch blocks skipped
UnwindNoCatch(w, inj, f, T, h) ==
  IF Len(w.gen.frames) = 1 THEN Halt(Pop(w), Res("throw", inj.v))
  ELSE Cont(Pop(w), inj)

\* Unwind with a throw into a delegated body handed straight to the body
\* that delegated
UnwindSkipsNested(w, inj, f, T, h) ==
  IF Len(w.gen.frames) > 1 THEN Cont(Pop(w), inj)
  ELSE IF h # 0 THEN
    Cont(SetTop(w, [f EXCEPT !.pc = T[h].tgt, !.env = Bind(@, T[h].var, inj.v)]),
         NoInj)
  ELSE Halt(Pop(w), Res("throw", inj.v))

\* a throw reaches the body at the top, paused or running at f.pc: try block
\* h of table T catches it (h > 0), else it leaves this body
Unwind(w, inj, f, T, h) ==
  IF h # 0 THEN
    Cont(SetTop(w, [f EXCEPT !.pc = T[h].tgt, !.env = Bind(@, T[h].var, inj.v)]),
         NoInj)
  ELSE IF Len(w.gen.frames) = 1 THEN Halt(Pop(w), Res("throw", inj.v))
  ELSE Cont(Pop(w), inj)

\* console.log(...) with the values vs
LogStep(w, f, vs) ==
  IF vs.k = "throw" THEN Cont(w, Inj("throw", vs.v))
  ELSE Advance([w EXCEPT !.out = Append(@, [fn |-> f.fn, vals |-> vs.v])], f, f.env)

\* x = request(...), r being what the call did and returned
RequestStep(w, f, dst, r) ==
  IF r.res.k = "throw" THEN Cont(r.w, Inj("throw", r.res.v))
  ELSE Advance(r.w, f, Bind(f.env, dst, r.res.v))

\* dst = Promise.all([...]), vs being the values of the elements
AllStep(w, f, dst, vs) ==
  IF vs.k = "throw" THEN Cont(w, Inj("throw", vs.v))
  ELSE RequestStep(w, f, dst, PromiseAll(w, vs.v))

\* dst = x.join("+"), x being v
JoinStep(w, f, dst, v) ==
  IF v.t # "list" THEN Cont(w, Inj("throw", ErrV("TypeError")))
  ELSE Advance(w, f, Bind(f.env, dst, Str(JoinFrom(w.alls[v.n].vals, "+", 1))))

\* instruction ins of the body at the top runs; val is the value of its
\* expression
Instr(w, f, ins, val) ==
  IF val.k = "throw" THEN Cont(w, Inj("throw", val.v))
  ELSE
    CASE ins.op = "yield" -> Halt(w, Res("yield", val.v))
      [] ins.op = "delegate" ->
           Cont([w EXCEPT !.gen.frames = Append(@, NewFrame(ins.fn))], NoInj)
      [] ins.op = "return" -> Finish(w, val.v)
      [] ins.op = "throw" -> Cont(w, Inj("throw", val.v))
      [] ins.op = "jump" -> Cont(SetTop(w, [f EXCEPT !.pc = ins.tgt]), NoInj)
      [] ins.op = "let" -> Advance(w, f, Bind(f.env, ins.dst, val.v))
      [] ins.op = "leave" -> Advance(w, f, Bind(f.env, ins.dst, Unbound))
      [] ins.op = "log" -> LogStep(w, f, EvalAll(ins.args, f.env))
      [] ins.op = "request" -> RequestStep(w, f, ins.dst, request(w, val.v))
      [] ins.op = "all" -> AllStep(w, f, ins.dst, EvalAll(ins.args, f.env))
      [] ins.op = "join" -> JoinStep(w, f, ins.dst, val.v)

\* one step of the body at the top, f, whose function is P
BodyStep(w, inj, f, P) ==
  IF inj.k = "throw" THEN Unwind(w, inj, f, P.try, FindHandler(P.try, f.pc))
  ELSE IF inj.k = "value" THEN
    \* the value of the paused yield, or of the yield* whose body returned
    Advance(w, f, Bind(f.env, P.code[f.pc].dst, inj.v))
  ELSE IF f.pc > Len(P.code) THEN Finish(w, Undef)
  ELSE Instr(w, f, P.code[f.pc], Eval(P.code[f.pc].e, f.env))

ExecStep(w, inj) == BodyStep(w, inj, Top(w), Prog(Top(w).fn))

\* Run the body from where it stands until it yields, returns or throws.
\* inj is what the resumption delivers to the paused yield.
RECURSIVE Exec(_, _)
ExecLoop(s) == IF s.halt THEN [w |-> s.w, res |-> s.res] ELSE Exec(s.w, s.inj)
Exec(w, inj) == ExecLoop(ExecStep(w, inj))

\* the generator after its body halted with r.res
Suspend(r) ==
  [w |-> [r.w EXCEPT !.gen.status =
            IF r.res.k = "yield" THEN "suspendedYield" ELSE "completed"],
   res |-> r.res]

\* Outcome with a finished generator refusing every further call
OutcomeRefuses(w, op, v) ==
  IF w.gen.status = "executing" THEN [w |-> w, res |-> Res("throw", ErrV("TypeError"))]
  ELSE IF w.gen.status = "completed" THEN
    [w |-> w, res |-> Res("throw", ErrV("InvalidStateError"))]
  ELSE IF w.gen.status = "suspendedStart" /\ op = "throw" THEN
    [w |-> [w EXCEPT !.gen = [status |-> "completed", frames |-> <<>>]],
     res |-> Res("throw", v)]
  ELSE
    Suspend(Exec([w EXCEPT !.gen.status = "executing"],
                 IF w.gen.status = "suspendedStart" THEN NoInj
                 ELSE IF op = "next" THEN Inj("value", v) ELSE Inj("throw", v)))

\* Outcome with a throw into a generator not yet started raised at its first
\* statement
OutcomeThrowStarts(w, op, v) ==
  IF w.gen.status = "executing" THEN [w |-> w, res |-> Res("throw", ErrV("TypeError"))]
  ELSE IF w.gen.status = "completed" THEN
    [w |-> w, res |-> IF op = "next" THEN Res("done", Undef) ELSE Res("throw", v)]
  ELSE
    Suspend(Exec([w EXCEPT !.gen.status = "executing"],
                 IF op = "throw" THEN Inj("throw", v)
                 ELSE IF w.gen.status = "suspendedStart" THEN NoInj
                 ELSE Inj("value", v)))

\* what it.next(v) (op "next") or it.throw(v) (op "throw") does and returns
Outcome(w, op, v) ==
  IF w.gen.status = "executing" THEN [w |-> w, res |-> Res("throw", ErrV("TypeError"))]
  ELSE IF w.gen.status = "completed" THEN
    [w |-> w, res |-> IF op = "next" THEN Res("done", Undef) ELSE Res("throw", v)]
  ELSE IF w.gen.status = "suspendedStart" /\ op = "throw" THEN
    [w |-> [w EXCEPT !.gen = [status |-> "completed", frames |-> <<>>]],
     res |-> Res("throw", v)]
  ELSE
    Suspend(Exec([w EXCEPT !.gen.status = "executing"],
                 IF w.gen.status = "suspendedStart" THEN NoInj
                 ELSE IF op = "next" THEN Inj("value", v) ELSE Inj("throw", v)))

\* the call is recorded with the state it found the generator in
Logged(o, op, v, by, st) ==
  [w |-> [o.w EXCEPT !.calls = Append(@, [op |-> op, by |-> by, arg |-> v,
                                          st |-> st, res |-> o.res])],
   res |-> o.res]

\* one call of it.next(v) or it.throw(v), made by `by`
Resume(w, op, v, by) == Logged(Outcome(w, op, v), op, v, by, w.gen.status)

ItNext(w, v, by) == Resume(w, "next", v, by)
ItThrow(w, v, by) == Resume(w, "throw", v, by)

(***************************************************************************)
(* runGenerator: iterate(val), called in context ctx (the call inside      *)
(* runGenerator, a promise reaction, a timer).                             *)
(***************************************************************************)
\* the rest of iterate, r being what it.next(val) did and returned
iterateRet(r, ctx) ==
  IF r.res.k = "throw" THEN Escape(r.w, ctx, "body", r.res.v)
  ELSE IF r.res.k = "yield" THEN
    IF IsPrimitive(r.res.v)
    THEN Escape([r.w EXCEPT !.ret = r.res], ctx, "driver", ErrV("TypeError"))
    ELSE IF r.res.v.t = "promise"
    THEN Then([r.w EXCEPT !.ret = r.res], r.res.v.n, OnIterate)
    ELSE [r.w EXCEPT !.ret = r.res]
  ELSE setTimeout([r.w EXCEPT !.ret = r.res], "iterate", Undef)

iterate(w, val, ctx) == iterateRet(ItNext(w, val, "iterate"), ctx)

(***************************************************************************)
(* State.                                                                  *)
(***************************************************************************)
VARIABLES
  snippet,   \* which snippet of the repository runs
  gen,       \* the generator object `it` / `iterator`
  out,       \* what console.log printed
  calls,     \* every next/throw call made on the generator, with its outcome
  ret,       \* runGenerator's `ret`: the last result of it.next
  tasks,     \* the timers set with setTimeout, in order
  micro,     \* the queue of pending promise reactions
  promises,  \* the promises created so far
  ajax,      \* the makeAjaxCall operations started, with their callbacks
  cache,     \* the response cache, by URL
  faults,    \* the exceptions and rejections nobody handled
  runs,      \* how many times the generator has been started
  alls,      \* the Promise.all calls: promise, elements, results so far
  settled,   \* the promises in the order they were settled
  args       \* the arguments the hand-driven generator was created with

vars ==
  << snippet, gen, out, calls, ret, tasks, micro, promises, ajax, cache,
     faults, runs, alls, settled, args >>

\* the snippets that resume an iterator by hand
ManualSnippets ==
  {"genAsIterator", "canUseReturn", "errorHandling", "errorHandling2",
   "errorHandling3", "thatFunction", "secondFunction", "pitcher", "quarterback",
   "mainTry", "superGenerator"}
\* the snippets that start main with `it = main(); it.next()`
KickSnippets == {"cb_main", "cache_main"}
\* runGenerator(g), for the generator functions g of the repository.  The
\* Promise.all main runs with the request defined before it (run_mainAll,
\* whose promises are never rejected) and with the error-first request of
\* the error handling section (run_mainAllErr).
RunSnippets ==
  {"run_main", "run_mainRun", "run_mainTry", "run_genAsIterator",
   "run_generatorFunction2", "run_errorHandling2", "run_mainAll",
   "run_mainAllErr"}

\* the generator function a snippet starts
BodyOf(sn) ==
  CASE sn \in ManualSnippets -> sn
    [] sn \in KickSnippets -> "main"
    [] sn = "run_main" -> "main"
    [] sn = "run_mainRun" -> "mainRun"
    [] sn = "run_mainTry" -> "mainTry"
    [] sn = "run_genAsIterator" -> "genAsIterator"
    [] sn = "run_generatorFunction2" -> "generatorFunction2"
    [] sn = "run_errorHandling2" -> "errorHandling2"
    [] sn \in {"run_mainAll", "run_mainAllErr"} -> "mainAll"

\* what a caller sends in
InVals == {Str("X"), Str("Y")}
ThrowVals == {Str("Whoopsie!")}
\* what superGenerator is called with and sent
ArgVals == {Num(5), Num(8)}
NumVals == {Num(12), Num(13), Str("X")}
Inputs(sn) == IF sn = "superGenerator" THEN NumVals ELSE InVals
Arguments(sn) == IF sn = "superGenerator" THEN {<<x>> : x \in ArgVals} ELSE {<<>>}

World ==
  [snippet |-> snippet, gen |-> gen, out |-> out, calls |-> calls, ret |-> ret,
   tasks |-> tasks, micro |-> micro, promises |-> promises, ajax |-> ajax,
   cache |-> cache, faults |-> faults, runs |-> runs, alls |-> alls,
   settled |-> settled]

Commit(w) ==
  /\ gen' = w.gen
  /\ out' = w.out
  /\ calls' = w.calls
  /\ ret' = w.ret
  /\ tasks' = w.tasks
  /\ micro' = w.micro
  /\ promises' = w.promises
  /\ ajax' = w.ajax
  /\ cache' = w.cache
  /\ faults' = w.faults
  /\ runs' = w.runs
  /\ alls' = w.alls
  /\ settled' = w.settled
  /\ UNCHANGED << snippet, args >>

Init ==
  /\ snippet \in ManualSnippets \cup KickSnippets \cup RunSnippets
  /\ args \in Arguments(snippet)
  /\ gen = NewGenArgs(BodyOf(snippet), args)
  /\ out = <<>>
  /\ calls = <<>>
  /\ ret = Res("none", Undef)
  /\ tasks = <<>>
  /\ micro = <<>>
  /\ promises = <<>>
  /\ ajax = <<>>
  /\ cache = [u \in Urls |-> Undef]
  /\ faults = <<>>
  /\ runs = 0
  /\ alls = <<>>
  /\ settled = <<>>

\* a call of it.next made directly by a callback of the event loop
Uncaught(r, by) ==
  IF r.res.k = "throw" THEN Escape(r.w, by, "body", r.res.v) ELSE r.w
NextFrom(w, v, by) == Uncaught(ItNext(w, v, by), by)

\* iterator.next(v)
ManualNext ==
  /\ snippet \in ManualSnippets
  /\ Len(calls) < MaxManualCalls
  /\ \E v \in Inputs(snippet) : Commit(ItNext(World, v, "caller").w)

\* iterator.throw(e)
ManualThrow ==
  /\ snippet \in ManualSnippets
  /\ Len(calls) < MaxManualCalls
  /\ \E e \in ThrowVals : Commit(ItThrow(World, e, "caller").w)

\* var it = main(); it.next()
Kick ==
  /\ snippet \in KickSnippets
  /\ runs < MaxRuns
  /\ Len(calls) < MaxCalls
  /\ Commit(NextFrom([World EXCEPT !.gen = NewGen(BodyOf(snippet)), !.runs = @ + 1],
                     Undef, "kick"))

\* runGenerator(g)
runGenerator ==
  /\ snippet \in RunSnippets
  /\ runs = 0
  /\ Commit(iterate([World EXCEPT !.gen = NewGen(BodyOf(snippet)), !.runs = 1],
                    Undef, "sync"))

\* the callbacks invoked so far beyond the first of each operation
Repeats ==
  Cardinality({c \in (1..Len(ajax)) \X (2..(MaxRepeats + 1)) : ajax[c[1]].n >= c[2]})
\* operation i may invoke its callback: for the first time, or once more
MayCallBack(i) == ajax[i].n = 0 \/ Repeats < MaxRepeats

\* the operation started by makeAjaxCall number i invokes its callback
AjaxCallback(i, err, text) ==
  LET a == ajax[i]
      w == [World EXCEPT !.ajax[i].n = @ + 1]
  IN
  CASE a.cb = "next" -> NextFrom(w, text, "callback")
    [] a.cb = "cache" ->
         NextFrom([w EXCEPT !.cache[a.url] = text], text, "callback")
    [] a.cb = "resolve" -> Settle(w, a.p, "resolved", text)
    [] a.cb = "errfirst" ->
         IF Truthy(err) THEN Settle(w, a.p, "rejected", err)
         ELSE Settle(w, a.p, "resolved", text)

AjaxDone ==
  /\ snippet \notin ManualSnippets
  /\ micro = <<>>
  /\ Len(calls) < MaxCalls
  /\ \E i \in 1..Len(ajax) :
       /\ MayCallBack(i)
       /\ \E text \in Responses : Commit(AjaxCallback(i, Undef, text))

AjaxFail ==
  /\ snippet \notin ManualSnippets
  /\ micro = <<>>
  /\ \E i \in 1..Len(ajax) :
       /\ MayCallBack(i)
       /\ ajax[i].cb = "errfirst"
       /\ Commit(AjaxCallback(i, AjaxError, Undef))

\* IterateReaction with the promise's value dropped
IterateReactionNoValue(w, p) ==
  IF p.state = "resolved" THEN iterate(w, Undef, "then")
  ELSE Escape(w, "then", "promise", p.v)

\* then(iterate) of runGenerator on promise p, now settled
IterateReaction(w, p) ==
  IF p.state = "resolved" THEN iterate(w, p.v, "then")
  ELSE Escape(w, "then", "promise", p.v)

\* promise d follows what the function given to then returned: the promise
\* r.res.v of another request
Follow(r, d) == Then(r.w, r.res.v.n, H("adopt", d, 0))

\* the function request (redirect version) gave to then, d being the promise
\* then returned and p the settled promise
PostReaction(w, p, d) ==
  IF p.state = "rejected" THEN Settle(w, d, "rejected", p.v)
  ELSE IF IsRedirect(p.v) THEN Follow(requestRedirect(w, p.v), d)
  ELSE Settle(w, d, "resolved", p.v)

\* ElementReaction with a rejected element kept like a result
ElementReactionWaits(w, p, k, i) ==
  IF w.alls[k].left = 1
  THEN Settle([w EXCEPT !.alls[k].vals[i] = p.v, !.alls[k].left = 0],
              w.alls[k].p, "resolved", ListV(k))
  ELSE [w EXCEPT !.alls[k].vals[i] = p.v, !.alls[k].left = @ - 1]

\* Promise.all number k: its element i, the promise p, has settled
ElementReaction(w, p, k, i) ==
  IF p.state = "rejected" THEN Settle(w, w.alls[k].p, "rejected", p.v)
  ELSE IF w.alls[k].left = 1
  THEN Settle([w EXCEPT !.alls[k].vals[i] = p.v, !.alls[k].left = 0],
              w.alls[k].p, "resolved", ListV(k))
  ELSE [w EXCEPT !.alls[k].vals[i] = p.v, !.alls[k].left = @ - 1]

\* the URLs whose server has moved, and the URL such a server answers with
Moved == {Str("http://url01")}
RedirectTo(url) == Str(url.s \o "/moved")

\* makeAjaxCall answers with a URL: a redirect
AjaxRedirect ==
  /\ RequestOf(snippet) = "redirect"
  /\ micro = <<>>
  /\ \E i \in 1..Len(ajax) :
       /\ ajax[i].url \in Moved
       /\ MayCallBack(i)
       /\ Commit(AjaxCallback(i, Undef, RedirectTo(ajax[i].url)))

\* the reaction at the head of the microtask queue runs
Reaction(w, m) ==
  CASE m.h.k = "iterate" -> IterateReaction(w, w.promises[m.p])
    [] m.h.k = "post" -> PostReaction(w, w.promises[m.p], m.h.d)
    [] m.h.k = "adopt" ->
         Settle(w, m.h.d, w.promises[m.p].state, w.promises[m.p].v)
    [] m.h.k = "element" -> ElementReaction(w, w.promises[m.p], m.h.d, m.h.i)

RunMicrotask ==
  /\ micro # <<>>
  /\ Len(calls) < MaxCalls
  /\ Commit(Reaction([World EXCEPT !.micro = Tail(@)], Head(micro)))

\* the oldest timer fires
Timer(w, t) ==
  IF t.k = "iterate" THEN iterate(w, w.ret.v, "timer")
  ELSE NextFrom(w, w.cache[t.url], "timer")

RunTimer ==
  /\ micro = <<>>
  /\ tasks # <<>>
  /\ Len(calls) < MaxCalls
  /\ Commit(Timer([World EXCEPT !.tasks = Tail(@)], Head(tasks)))

Next ==
  \/ ManualNext
  \/ ManualThrow
  \/ Kick
  \/ runGenerator
  \/ AjaxDone
  \/ AjaxFail
  \/ AjaxRedirect
  \/ RunMicrotask
  \/ RunTimer

Spec == Init /\ [][Next]_vars

(***************************************************************************)
(* Properties.                                                             *)
(***************************************************************************)
Last(q) == q[Len(q)]
\* the yields of a generator function
SuspensionPoints(fn) ==
  Cardinality({i \in 1..Len(Prog(fn).code) : Prog(fn).code[i].op = "yield"})
\* the calls before call i were all next
AllNextUpTo(i) == \A j \in 1..i : calls[j].op = "next"
\* a throw into the paused generator meets a try block: in the body that is
\* paused, or in one that delegated to it
Guarded ==
  /\ gen.status = "suspendedYield"
  /\ \E k \in 1..Len(gen.frames) :
       FindHandler(Prog(gen.frames[k].fn).try, gen.frames[k].pc) # 0
\* the step is one call of throw
ThrowStep ==
  /\ Len(calls') = Len(calls) + 1
  /\ Last(calls').op = "throw"

\* C1 (as claimed): once runGenerator has seen done: true from it.next, the
\* run is over: no timer is left to resume the generator and it.next was
\* never called on the finished generator.
C1_RunEnds ==
  (snippet \in RunSnippets /\ ret.k = "done") =>
    /\ tasks = <<>>
    /\ \A i \in 1..Len(calls) : calls[i].st # "completed"

\* C2 (as claimed): with no error, runGenerator calls it.next at most N+1
\* times for a body with N yields, and exactly N+1 times once it has seen
\* done: true.
C2_CallCount ==
  (snippet \in RunSnippets /\ faults = <<>>) =>
    /\ Len(calls) <= SuspensionPoints(BodyOf(snippet)) + 1
    /\ ret.k = "done" => Len(calls) = SuspensionPoints(BodyOf(snippet)) + 1

\* C3 (as claimed): when the promise the generator is waiting on has been
\* rejected and its reactions have run, the reason has been thrown into the
\* generator with it.throw.
C3_RejectionThrownIn ==
  \A p \in 1..Len(promises) :
    (/\ snippet \in RunSnippets
     /\ ret = Res("yield", PromiseV(p))
     /\ promises[p].state = "rejected"
     /\ micro = <<>>) =>
      \E i \in 1..Len(calls) :
        calls[i].op = "throw" /\ calls[i].arg = promises[p].v

\* C4 (as claimed): when the generator has yielded a value that is not a
\* promise, a resumption with that value is on its way.
C4_PlainValueSentBack ==
  (snippet \in RunSnippets /\ ret.k = "yield" /\ ret.v.t # "promise") =>
    \E i \in 1..Len(tasks) : tasks[i].k = "iterate"

\* C5 (as claimed): every it.next call of a request helper or of runGenerator
\* finds the generator suspended, at its start or at a yield: never running,
\* never finished.
C5_ResumedOnlySuspended ==
  snippet \notin ManualSnippets =>
    \A i \in 1..Len(calls) : calls[i].st \in {"suspendedStart", "suspendedYield"}

\* The part of C5 that the code keeps: no call finds the generator running.
NeverReentered == \A i \in 1..Len(calls) : calls[i].st # "executing"

\* C6 (as claimed): an error the body throws during it.next never leaves
\* runGenerator as an uncaught exception or an unhandled rejection.
C6_BodyErrorsCaught ==
  snippet \in RunSnippets =>
    \A i \in 1..Len(faults) : faults[i].origin # "body"

\* C7: a throw into a generator paused inside a try block (its own, or one
\* around the yield* that delegated to the paused body) does not come back
\* to the caller of throw: the catch block runs (it logs the error) and the
\* call returns the next yield or done.
C7_ThrowCaught ==
  [][ (ThrowStep /\ Guarded) =>
        /\ Last(calls').res.k \in {"yield", "done"}
        /\ Len(out') = Len(out) + 1
        /\ Last(out').vals \in {<<Last(calls').arg>>, <<ToNumber(Last(calls').arg)>>}
        /\ gen'.status = IF Last(calls').res.k = "done" THEN "completed"
                         ELSE "suspendedYield" ]_vars

\* errorHandling: next(), then throw('Whoopsie!') is caught and the
\* generator completes
C7_Witness ==
  /\ snippet = "errorHandling"
  /\ Len(calls) = 2
  /\ calls[1].res = Res("yield", Num(3))
  /\ calls[2].op = "throw"
  /\ calls[2].res = Res("done", Undef)
  /\ out = << [fn |-> "errorHandling", vals |-> <<Str("Whoopsie!")>>] >>
  /\ gen.status = "completed"

GoldenDelegation ==
  << Res("yield", Num(1)), Res("yield", Num(2)), Res("yield", Num(3)),
     Res("yield", Num(4)), Res("yield", Num(5)), Res("done", Undef) >>

\* C9: resumed with next only, secondFunction and thatFunction return 1, 2,
\* 3, 4, 5, then done, as with the nested body written in place; and what
\* secondFunction logs shows that the 2nd and 3rd inputs went to x and y, the
\* 4th and 5th to z and w of firstFunction, the 6th to v.
C9_Delegation ==
  snippet \in {"secondFunction", "thatFunction"} =>
    /\ \A i \in 1..Len(calls) :
         AllNextUpTo(i) =>
           calls[i].res = IF i <= 6 THEN GoldenDelegation[i] ELSE Res("done", Undef)
    /\ (snippet = "secondFunction" /\ Len(calls) >= 5 /\ AllNextUpTo(5)) =>
         /\ Len(out) >= 1
         /\ out[1] = [fn |-> "firstFunction", vals |-> <<calls[4].arg, calls[5].arg>>]
    /\ (snippet = "secondFunction" /\ Len(calls) >= 6 /\ AllNextUpTo(6)) =>
         /\ Len(out) = 2
         /\ out[2] = [fn |-> "secondFunction",
                      vals |-> <<calls[2].arg, calls[3].arg, calls[6].arg>>]

\* secondFunction resumed six times with inputs that tell the yields apart
C9_Witness ==
  /\ snippet = "secondFunction"
  /\ Len(calls) = 6
  /\ AllNextUpTo(6)
  /\ calls[6].res = Res("done", Undef)
  /\ calls[2].arg # calls[4].arg
  /\ calls[3].arg # calls[5].arg
  /\ Len(out) = 2

\* C10: resumed with next only, pitcher returns 1, 2, 3, 4, then done: the
\* call that ends catcher returns pitcher's yield 4, 'im catcher' is never
\* emitted, and v is 'im catcher' whatever was passed to that call.
C10_ReturnValue ==
  snippet = "pitcher" =>
    /\ \A i \in 1..Len(calls) :
         AllNextUpTo(i) =>
           calls[i].res = IF i <= 4 THEN Res("yield", Num(i)) ELSE Res("done", Undef)
    /\ (Len(calls) >= 4 /\ AllNextUpTo(4)) =>
         out = << [fn |-> "pitcher", vals |-> <<Str("im catcher")>>] >>

\* pitcher after the call that ends catcher, which was given a value
C10_Witness ==
  /\ snippet = "pitcher"
  /\ Len(calls) = 4
  /\ AllNextUpTo(4)
  /\ calls[4].arg = Str("X")
  /\ calls[4].res = Res("yield", Num(4))
  /\ out = << [fn |-> "pitcher", vals |-> <<Str("im catcher")>>] >>

\* the step is one call of next
NextStep ==
  /\ Len(calls') = Len(calls) + 1
  /\ Last(calls').op = "next"
\* the generator is paused in a body it delegated to
Delegating == gen.status = "suspendedYield" /\ Len(gen.frames) = 2
\* try block of frame k around the place where it stands, 0 when none
HandlerOf(k) == FindHandler(Prog(gen.frames[k].fn).try, gen.frames[k].pc)

\* C11: a throw into a generator paused in a delegated body goes to that body
\* first.  When a try block of the delegated body is around its paused yield,
\* its catch block runs, the delegating body is left as it was (its catch
\* block does not run) and the call returns the delegated body's next yield;
\* only when the delegated body has no try block there does the catch block
\* around the yield* run, and with no try block there either the error goes
\* to the caller.
C11_NestedFirst ==
  [][ (ThrowStep /\ Delegating) =>
        IF HandlerOf(2) # 0 THEN
          /\ out' = Append(out, [fn |-> gen.frames[2].fn, vals |-> <<Last(calls').arg>>])
          /\ Len(gen'.frames) = 2
          /\ gen'.frames[1] = gen.frames[1]
          /\ Last(calls').res.k = "yield"
        ELSE IF HandlerOf(1) # 0 THEN
          /\ out' = Append(out, [fn |-> gen.frames[1].fn,
                                  vals |-> <<ToNumber(Last(calls').arg)>>])
          /\ Last(calls').res.k \in {"yield", "done"}
        ELSE
          /\ out' = out
          /\ Last(calls').res = Res("throw", Last(calls').arg) ]_vars

\* quarterback: a throw that receiver catches, then a throw that receiver
\* does not catch and quarterback does
C11_Witness ==
  /\ snippet = "quarterback"
  /\ Len(calls) = 4
  /\ AllNextUpTo(2)
  /\ calls[3].op = "throw" /\ calls[3].res = Res("yield", Undef)
  /\ calls[4].op = "throw" /\ calls[4].res = Res("done", Undef)
  /\ out = << [fn |-> "receiver", vals |-> <<Str("Whoopsie!")>>],
              [fn |-> "quarterback", vals |-> <<NaN>>] >>

\* C16: a throw into a generator that is not started, or is paused with no
\* try block around the paused yield (in its body or in a delegating one),
\* comes back to the caller of throw as the same error, and the generator is
\* finished afterwards.
C16_UncaughtThrow ==
  [][ (ThrowStep /\ ~Guarded /\ gen.status \in {"suspendedStart", "suspendedYield"}) =>
        /\ Last(calls').res = Res("throw", Last(calls').arg)
        /\ gen' = [status |-> "completed", frames |-> <<>>]
        /\ out' = out ]_vars

\* errorHandling2: throw as the first call, then next finds it finished
C16_Witness ==
  /\ snippet = "errorHandling2"
  /\ Len(calls) = 2
  /\ calls[1].op = "throw"
  /\ calls[1].st = "suspendedStart"
  /\ calls[1].res = Res("throw", Str("Whoopsie!"))
  /\ calls[2].op = "next"
  /\ calls[2].res = Res("done", Undef)

\* C17: next on quarterback paused at receiver's second yield makes receiver
\* throw 12345, which receiver does not catch; the catch block around the
\* yield* logs it and the call returns done, with no error for the caller.
C17_NestedErrorCaught ==
  [][ (/\ NextStep
       /\ snippet = "quarterback"
       /\ Delegating
       /\ Prog(gen.frames[2].fn).code[gen.frames[2].pc + 1].op = "throw") =>
        /\ Last(calls').res = Res("done", Undef)
        /\ out' = Append(out, [fn |-> "quarterback", vals |-> <<Num(12345)>>])
        /\ gen' = [status |-> "completed", frames |-> <<>>] ]_vars

\* quarterback as README.md drives it: next, next, throw, next
C17_Witness ==
  /\ snippet = "quarterback"
  /\ Len(calls) = 4
  /\ AllNextUpTo(2)
  /\ calls[3].op = "throw" /\ calls[3].res = Res("yield", Undef)
  /\ calls[4].op = "next" /\ calls[4].res = Res("done", Undef)
  /\ out = << [fn |-> "receiver", vals |-> <<Str("Whoopsie!")>>],
              [fn |-> "quarterback", vals |-> <<Num(12345)>>] >>

\* three times a number or a fraction with denominator 3
Times3(v) == IF v.t = "ratio" THEN v.n ELSE 3 * v.n

\* C18: superGenerator(x) resumed with next only: the first call returns
\* x + 1 whatever it was given; the second, given the number a, returns a
\* value e with 3e = 2a; the third, given the number b, returns x + 2a + b
\* with done.
C18_BothDirections ==
  snippet = "superGenerator" =>
    /\ (Len(calls) >= 1 /\ AllNextUpTo(1)) =>
         calls[1].res = Res("yield", Num(args[1].n + 1))
    /\ (Len(calls) >= 2 /\ AllNextUpTo(2) /\ calls[2].arg.t = "num") =>
         /\ calls[2].res.k = "yield"
         /\ calls[2].res.v.t \in {"num", "ratio"}
         /\ Times3(calls[2].res.v) = 2 * calls[2].arg.n
    /\ (/\ Len(calls) >= 3 /\ AllNextUpTo(3)
        /\ calls[2].arg.t = "num" /\ calls[3].arg.t = "num") =>
         calls[3].res =
           Res("done", Num(args[1].n + 2 * calls[2].arg.n + calls[3].arg.n))

\* superGenerator(5) with next(), next(12), next(13): 6, 8, 42
C18_Witness ==
  /\ snippet = "superGenerator"
  /\ args = << Num(5) >>
  /\ Len(calls) = 3
  /\ AllNextUpTo(3)
  /\ calls[2].arg = Num(12) /\ calls[3].arg = Num(13)
  /\ calls[1].res = Res("yield", Num(6))
  /\ calls[2].res = Res("yield", Num(8))
  /\ calls[3].res = Res("done", Num(42))

\* C14 (as claimed): through the caching request no URL has two makeAjaxCall
\* operations of which the earlier has not called back yet: a request made
\* while one for the same URL is in flight shares it.
C14_InFlightShared ==
  snippet = "cache_main" =>
    \A i, j \in 1..Len(ajax) :
      (i < j /\ ajax[i].url = ajax[j].url) => ajax[i].n > 0

\* C15 (as claimed): a response stored in the cache for a URL is never
\* replaced by another value and never removed.
C15_CacheStable ==
  [][ \A u \in Urls : Truthy(cache[u]) => cache'[u] = cache[u] ]_vars

\* the snippets that yield Promise.all of three requests
AllSnippets == {"run_mainAll", "run_mainAllErr"}
\* the URL of the i-th request given to Promise.all
AllUrl(i) == Str("http://url0" \o ToString(i))
\* the makeAjaxCall operation started for url
OpFor(url) == CHOOSE j \in 1..Len(ajax) : ajax[j].url = url
\* what the request for url came back with: the first answer to its
\* makeAjaxCall, or what the request for the URL in that answer came back with
RECURSIVE Answer(_)
Answer(url) ==
  LET v == promises[ajax[OpFor(url)].p].v IN
  IF RequestOf(snippet) = "redirect" /\ IsRedirect(v) THEN Answer(v) ELSE v
\* the place of promise p in the order of settlement
Pos(p) == CHOOSE n \in 1..Len(settled) : settled[n] = p
\* the calls that delivered an array
ListCalls == {j \in 1..Len(calls) : calls[j].arg.t = "list"}

\* C12: when the promise of Promise.all is resolved and its reactions have
\* run, the generator has been resumed with the array whose i-th element is
\* what the i-th request came back with, and the next request's URL joins
\* these in the same order, whatever the order in which the requests were
\* answered.
C12_InputOrder ==
  snippet \in AllSnippets =>
    /\ \A k \in 1..Len(alls) :
         (promises[alls[k].p].state = "resolved" /\ micro = <<>>) =>
           /\ Len(calls) >= 2
           /\ calls[2].arg = ListV(k)
    /\ \A j \in ListCalls :
         /\ calls[j].st = "suspendedYield"
         /\ Len(alls[calls[j].arg.n].vals) = 3
         /\ \A i \in 1..3 : alls[calls[j].arg.n].vals[i] = Answer(AllUrl(i))
         /\ \E o \in 1..Len(ajax) :
              ajax[o].url = Str("http://url04?search=" \o Answer(AllUrl(1)).s \o "+"
                                \o Answer(AllUrl(2)).s \o "+" \o Answer(AllUrl(3)).s)

\* the second request was answered before the first, with another text, and
\* the generator got the array in the order of the requests
C12_Witness ==
  /\ snippet = "run_mainAll"
  /\ Len(calls) = 2
  /\ calls[2].arg = ListV(1)
  /\ Pos(alls[1].kids[2]) < Pos(alls[1].kids[1])
  /\ alls[1].vals = << GoodText, BadText, GoodText >>
  /\ Answer(AllUrl(2)) = BadText

\* a promise, once settled, keeps its state and value
SettledOnce ==
  \A p \in 1..Len(promises) :
    promises[p].state # "pending" =>
      /\ promises'[p].state = promises[p].state
      /\ promises'[p].v = promises[p].v
\* the elements of Promise.all number k that are rejected
RejectedKids(k) ==
  {i \in 1..Len(alls[k].kids) : promises[alls[k].kids[i]].state = "rejected"}
\* the state of Promise.all number k, a being its promise
AllSettles(k, a) ==
  /\ promises[a].state = "resolved" =>
       /\ \A i \in 1..Len(alls[k].kids) :
            /\ promises[alls[k].kids[i]].state = "resolved"
            /\ Pos(alls[k].kids[i]) < Pos(a)
       /\ Cardinality(ListCalls) <= 1
  /\ promises[a].state = "rejected" =>
       /\ \E i \in RejectedKids(k) :
            /\ promises[a].v = promises[alls[k].kids[i]].v
            /\ \A c \in 1..Len(alls[k].kids) :
                 promises[alls[k].kids[c]].state # "pending" =>
                   \/ Pos(alls[k].kids[c]) <= Pos(alls[k].kids[i])
                   \/ Pos(a) < Pos(alls[k].kids[c])
       /\ ListCalls = {}
  /\ (micro = <<>> /\ RejectedKids(k) # {}) => promises[a].state = "rejected"
  /\ Cardinality({n \in 1..Len(settled) : settled[n] = a}) <= 1

\* C13: the promise of Promise.all settles once.  It is resolved only after
\* every element was resolved; it is rejected as soon as the first element is
\* rejected, with that element's reason, before any later element settles.
\* Elements that settle afterwards leave its state and value as they are, and
\* the generator is resumed with the array at most once, and not at all
\* after a rejection.
C13_SettlesOnce ==
  [][ /\ SettledOnce
      /\ snippet \in AllSnippets =>
            \A k \in 1..Len(alls') : AllSettles(k, alls[k].p)' ]_vars

\* the second request failed first; the others were answered afterwards
C13_Witness ==
  /\ snippet = "run_mainAllErr"
  /\ Len(alls) = 1
  /\ promises[alls[1].p].state = "rejected"
  /\ promises[alls[1].kids[2]].state = "rejected"
  /\ promises[alls[1].kids[1]].state = "resolved"
  /\ promises[alls[1].kids[3]].state = "resolved"
  /\ Pos(alls[1].p) < Pos(alls[1].kids[1])
  /\ Pos(alls[1].p) < Pos(alls[1].kids[3])
  /\ Len(calls) = 1

\* operation i of makeAjaxCall invokes its callback again in this step
CallsBackAgain(i) == ajax[i].n >= 1 /\ ajax'[i].n > ajax[i].n

\* C19 (as claimed): with every request helper, a callback that
\* makeAjaxCall invokes a second time makes no call of it.next or it.throw.
C19_OneResumption ==
  [][ \A i \in 1..Len(ajax) : CallsBackAgain(i) => calls' = calls ]_vars

\* C19 (amended): with the request helpers that return a promise, a callback
\* invoked again, with a response or with an error, changes no promise,
\* queues no reaction and makes no call; and a reaction that calls it.next
\* belongs to the promise the paused generator yielded last, so that a
\* request resumes the generator at most once.
C19_PromiseOneResumption ==
  [][ (snippet \in RunSnippets) =>
        /\ \A i \in 1..Len(ajax) :
             CallsBackAgain(i) =>
               /\ calls' = calls
               /\ promises' = promises
               /\ micro' = micro
        /\ (micro # <<>> /\ calls' # calls) =>
             /\ gen.status = "suspendedYield"
             /\ Len(calls') = Len(calls) + 1
             /\ ret = Res("yield", PromiseV(Head(micro).p)) ]_vars

\* the error handling main: the first request answered, then reported
\* failed; the generator was resumed once
C19_Witness ==
  /\ snippet = "run_mainTry"
  /\ Len(ajax) >= 1
  /\ ajax[1].n = 2
  /\ promises[1].state = "resolved"
  /\ micro = <<>>
  /\ Len(calls) = 2
  /\ calls[2].st = "suspendedYield"

\* the snippets that run main with its two requests
MainSnippets == {"cb_main", "cache_main", "run_main", "run_mainRun"}

\* C20 (as claimed): in one run of main no request is issued while an
\* earlier one is unanswered, and a response is delivered only to the yield
\* that asked for it: the call that delivers it finds the generator paused,
\* and it is the first answer to the request issued last.
C20_OwnResponse ==
  [][ (snippet \in MainSnippets /\ runs' = 1) =>
        /\ \A i \in 1..Len(ajax') : i < Len(ajax') => ajax'[i].n >= 1
        /\ \A i \in 1..Len(ajax) :
             (ajax'[i].n > ajax[i].n /\ calls' # calls) =>
               /\ i = Len(ajax)
               /\ ajax[i].n = 0
               /\ gen.status = "suspendedYield" ]_vars

\* C20 (amended): in main run by runGenerator with the request that returns
\* a promise, request o is issued only after request o - 1 was answered and
\* its response delivered by call o; and each call that resumes the paused
\* generator delivers the first answer to the request whose promise the
\* generator yielded at that yield.
C20_PromiseOwnResponse ==
  snippet \in {"run_main", "run_mainRun"} =>
    /\ \A o \in 2..Len(ajax) :
         /\ ajax[o - 1].n >= 1
         /\ Len(calls) >= o
         /\ calls[o].arg = promises[ajax[o - 1].p].v
    /\ \A j \in 2..Len(calls) :
         calls[j].st = "suspendedYield" =>
           /\ calls[j - 1].res = Res("yield", PromiseV(ajax[j - 1].p))
           /\ promises[ajax[j - 1].p].state = "resolved"
           /\ calls[j].arg = promises[ajax[j - 1].p].v

\* main run to its end by runGenerator, the first request answered twice
C20_Witness ==
  /\ snippet = "run_main"
  /\ Len(ajax) = 2
  /\ ajax[1].n = 2
  /\ Len(calls) >= 3
  /\ calls[2].arg = GoodText
  /\ calls[3].arg = GoodText
  /\ calls[3].res = Res("done", Undef)
  /\ out = << [fn |-> "main", vals |-> <<Str("v")>>] >>

====
